---- MODULE Spec2Model ----
(***************************************************************************)
(* A model of the near-Earth-object database: the entity constructors      *)
(* (models.py), the dataset and its designation index (database.py), the   *)
(* filter predicates, the filter factory and limit (filters.py).           *)
(*                                                                         *)
(* Encoding of Python values:                                              *)
(*   - None is the empty tuple <<>> and a present value v the tuple <<v>>  *)
(*     wherever a field may hold None (approach.neo, approach.time, a      *)
(*     criterion of create_filters, max_elements);                         *)
(*   - an object reference is the position of the object in the list that  *)
(*     holds it (neos, approaches), counted from 1;                        *)
(*   - a float is an integer, and float('nan') is the value NaN, which     *)
(*     every comparison answers False for;                                 *)
(*   - a bool is the integer 0 or 1 (Python's bool is an int).             *)
(* The name index (_neo_idx_by_name) and the name field are left out: no   *)
(* operation modelled here reads them.                                     *)
(***************************************************************************)
EXTENDS Integers, Sequences, FiniteSets, TLC

VARIABLES
    infos,          \* the info each NearEarthObject was constructed from (history)
    neos,           \* the NearEarthObjects, in the order supplied
    approaches,     \* the CloseApproaches, in the order supplied
    neo_idx_by_designation,  \* NEODatabase._neo_idx_by_designation
    phase,          \* "loading" before NEODatabase.__init__, "ready" after
    ret,            \* the last value returned by a lookup or a serialization
    criteria,       \* the arguments of the last create_filters call (history)
    filters,        \* the filter collection
    q_state,        \* the query generator: "none", "created", "running", "suspended", "done", "raised"
    q_pos,          \* position of the approach the generator is at (0 before the first)
    q_filter,       \* position of the filter all() evaluates next (0 when not evaluating)
    yielded,        \* the approaches the query generator has yielded (history)
    calls,          \* the <<approach, filter>> pairs a filter was called on (history)
    error,          \* the exception that ended the query, or "none"
    lim_mode,       \* "none", "passthrough" (limit returned its argument) or "genexpr"
    max_elements,   \* limit's max_elements
    lim_idx,        \* enumerate's counter inside limit's generator expression
    out,            \* the items the consumer has received (history)
    pulls,          \* how many times the next item was requested from the source (history)
    ctl             \* who runs: "consumer", "query" or "limit"

vars == <<infos, neos, approaches, neo_idx_by_designation, phase, ret, criteria,
          filters, q_state, q_pos, q_filter, yielded, calls, error, lim_mode,
          max_elements, lim_idx, out, pulls, ctl>>

dbVars == <<infos, neos, approaches, neo_idx_by_designation, phase>>
queryVars == <<q_state, q_pos, q_filter, yielded, calls, error, out, pulls, ctl>>
limitVars == <<lim_mode, max_elements, lim_idx>>

(***************************************************************************)
(* Bounds of the model.                                                    *)
(***************************************************************************)
MaxNeos == 2
MaxQueryNeos == 1
MaxApproaches == 2
MaxFilters == 2
MaxLimit == 2

(***************************************************************************)
(* Python values.                                                          *)
(***************************************************************************)
None == <<>>
Some(v) == <<v>>
NaN == -1
Bool(b) == IF b THEN 1 ELSE 0
Min(a, b) == IF a <= b THEN a ELSE b

\* The values of info['diameter']: None (or a missing key), a float, a string.
PyNone == [kind |-> "None", v |-> 0, s |-> ""]
PyFloat(x) == [kind |-> "float", v |-> x, s |-> ""]
PyStr(t) == [kind |-> "str", v |-> 0, s |-> t]

\* Python's truth value of such a value: None, 0.0 and '' are false.
Truthy(x) ==
    CASE x.kind = "None" -> FALSE
      [] x.kind = "float" -> x.v # 0
      [] x.kind = "str" -> x.s # ""

\* float(x): the float itself, the number a numeric string spells, or a
\* ValueError (answered here as <<>>) for any other string.
ToFloat(x) ==
    CASE x.kind = "float" -> Some(x.v)
      [] x.kind = "str" /\ x.s = "0" -> Some(0)
      [] x.kind = "str" /\ x.s = "2" -> Some(2)
      [] OTHER -> None

(***************************************************************************)
(* models.py                                                               *)
(***************************************************************************)
\* self.diameter of NearEarthObject.__init__.
DiameterOf(raw) ==
    IF Truthy(raw)
    THEN IF ToFloat(raw) = None THEN NaN ELSE ToFloat(raw)[1]
    ELSE NaN

NearEarthObject(info) ==
    [designation |-> info.designation,
     diameter |-> DiameterOf(info.diameter),
     hazardous |-> Bool(info.hazardous),
     approaches |-> <<>>]

\* cd_to_datetime's result is <<date, time of day>>.
CloseApproach(info) ==
    [designation |-> info.designation,
     time |-> IF info.datetime # None THEN info.datetime ELSE None,
     distance |-> info.distance,
     velocity |-> info.velocity,
     neo |-> None]

\* `self.diameter is not float('nan')`: float('nan') builds a new object, so
\* the identity test compares the NEO's diameter object (the object numbered
\* n for the n-th NEO) with an object that did not exist before the call.
FreshObject == Len(neos) + 1
IsNotFreshNaN(n) == n # FreshObject

\* NearEarthObject.serialize, the diameter_km entry.
SerializeDiameter(n) ==
    IF IsNotFreshNaN(n) THEN PyFloat(neos[n].diameter) ELSE PyStr("nan")

(***************************************************************************)
(* database.py                                                             *)
(***************************************************************************)
\* d[key] = value on a dict held as a function.
DictPut(d, key, value) ==
    [k \in DOMAIN d \cup {key} |-> IF k = key THEN value ELSE d[k]]

\* d.get(key, default)
DictGet(d, key, default) == IF key \in DOMAIN d THEN d[key] ELSE default

EmptyDict == [k \in {} |-> 0]

\* {neo.designation: idx for idx, neo in enumerate(neos)}, from position k on.
RECURSIVE IndexFrom(_, _, _)
IndexFrom(ns, k, d) ==
    IF k > Len(ns) THEN d
    ELSE IndexFrom(ns, k + 1, DictPut(d, ns[k].designation, k - 1))

DesignationIndexFirstWins(ns) ==
    [d \in {ns[i].designation : i \in DOMAIN ns} |->
        (CHOOSE i \in DOMAIN ns :
            /\ ns[i].designation = d
            /\ \A j \in DOMAIN ns : ns[j].designation = d => i <= j) - 1]

DesignationIndex(ns) == IndexFrom(ns, 1, EmptyDict)

\* get_neo_by_designation on a given list and index: the NEO's reference
\* (position idx + 1) or None.
LookupOffByOne(ns, index, designation) ==
    LET idx == DictGet(index, designation, -1)
    IN  IF idx > 0 THEN Some(idx + 1) ELSE None

Lookup(ns, index, designation) ==
    LET idx == DictGet(index, designation, -1)
    IN  IF idx >= 0 THEN Some(idx + 1) ELSE None

\* The body of the linking loop for the approach at position k.
LinkOnePrepends(db, k) ==
    LET neo == Lookup(db.neos, db.index, db.approaches[k].designation)
    IN  IF neo # None
        THEN [db EXCEPT !.approaches[k].neo = neo,
                        !.neos[neo[1]].approaches = <<k>> \o @]
        ELSE db

LinkOne(db, k) ==
    LET neo == Lookup(db.neos, db.index, db.approaches[k].designation)
    IN  IF neo # None
        THEN [db EXCEPT !.approaches[k].neo = neo,
                        !.neos[neo[1]].approaches = Append(@, k)]
        ELSE db

\* for approach in self._approaches: ..., from position k on.
RECURSIVE LinkFrom(_, _)
LinkFrom(db, k) ==
    IF k > Len(db.approaches) THEN db ELSE LinkFrom(LinkOne(db, k), k + 1)

\* The inputs of the constructors.
Designations == {"a", "b"}
ApproachDesignations == {"a", "b", "c"}
RawDiameters == {PyNone, PyFloat(0), PyFloat(2), PyStr("x"), PyStr("0")}
DBNeoInfos ==
    [designation : Designations, diameter : RawDiameters, hazardous : {FALSE}]
DBApproachInfos ==
    [designation : ApproachDesignations, datetime : {Some(<<1, 0>>)},
     distance : {1}, velocity : {1}]

NoRet == [op |-> "none", arg |-> "", neo |-> None, diameter_km |-> PyNone]

Init ==
    /\ infos = <<>>
    /\ neos = <<>>
    /\ approaches = <<>>
    /\ neo_idx_by_designation = EmptyDict
    /\ phase = "loading"
    /\ ret = NoRet
    /\ criteria = <<>>
    /\ filters = <<>>
    /\ q_state = "none"
    /\ q_pos = 0
    /\ q_filter = 0
    /\ yielded = <<>>
    /\ calls = {}
    /\ error = "none"
    /\ lim_mode = "none"
    /\ max_elements = None
    /\ lim_idx = 0
    /\ out = <<>>
    /\ pulls = 0
    /\ ctl = "consumer"

\* NearEarthObject(**info), appended to the list the database will be given.
NewNEO(info) ==
    /\ phase = "loading"
    /\ Len(neos) < MaxNeos
    /\ neos' = Append(neos, NearEarthObject(info))
    /\ infos' = Append(infos, info)
    /\ UNCHANGED <<approaches, neo_idx_by_designation, phase, ret, criteria,
                   filters>>
    /\ UNCHANGED queryVars
    /\ UNCHANGED limitVars

\* CloseApproach(**info), appended to the list the database will be given.
NewApproach(info) ==
    /\ phase = "loading"
    /\ Len(approaches) < MaxApproaches
    /\ approaches' = Append(approaches, CloseApproach(info))
    /\ UNCHANGED <<infos, neos, neo_idx_by_designation, phase, ret, criteria,
                   filters>>
    /\ UNCHANGED queryVars
    /\ UNCHANGED limitVars

\* NEODatabase.__init__
NEODatabaseInit ==
    /\ phase = "loading"
    /\ LET index == DesignationIndex(neos)
           db == LinkFrom([neos |-> neos, approaches |-> approaches,
                           index |-> index], 1)
       IN  /\ neo_idx_by_designation' = index
           /\ neos' = db.neos
           /\ approaches' = db.approaches
    /\ phase' = "ready"
    /\ UNCHANGED <<infos, ret, criteria, filters>>
    /\ UNCHANGED queryVars
    /\ UNCHANGED limitVars

\* NEODatabase.get_neo_by_designation
GetNeoByDesignation(designation) ==
    /\ phase = "ready"
    /\ ret' = [op |-> "get_neo_by_designation", arg |-> designation,
               neo |-> Lookup(neos, neo_idx_by_designation, designation),
               diameter_km |-> PyNone]
    /\ UNCHANGED <<criteria, filters>>
    /\ UNCHANGED dbVars
    /\ UNCHANGED queryVars
    /\ UNCHANGED limitVars

\* NearEarthObject.serialize on the n-th NEO.
Serialize(n) ==
    /\ phase = "ready"
    /\ n \in DOMAIN neos
    /\ ret' = [op |-> "serialize", arg |-> neos[n].designation,
               neo |-> Some(n), diameter_km |-> SerializeDiameter(n)]
    /\ UNCHANGED <<criteria, filters>>
    /\ UNCHANGED dbVars
    /\ UNCHANGED queryVars
    /\ UNCHANGED limitVars

NextDB ==
    \/ \E info \in DBNeoInfos : NewNEO(info)
    \/ \E info \in DBApproachInfos : NewApproach(info)
    \/ NEODatabaseInit
    \/ \E d \in ApproachDesignations : GetNeoByDesignation(d)
    \/ \E n \in 1..MaxNeos : Serialize(n)

SpecDB == Init /\ [][NextDB]_vars

(***************************************************************************)
(* filters.py: the filter predicates.                                      *)
(***************************************************************************)
Filter(family, comparator, ref_value) ==
    [family |-> family, comparator |-> comparator, ref_value |-> ref_value]

\* What extract_attribute raises for filter f on the approach a: the base
\* class raises FilterNotSupported; `.date()` of a None time and an attribute
\* of a None neo raise AttributeError.
ExtractErrorBaseSilent(f, a) ==
    CASE f.family = "Date" /\ a.time = None -> "AttributeError"
      [] f.family \in {"Diameter", "Hazard"} /\ a.neo = None -> "AttributeError"
      [] OTHER -> "none"

ExtractError(f, a) ==
    CASE f.family = "General" -> "FilterNotSupported"
      [] f.family = "Date" /\ a.time = None -> "AttributeError"
      [] f.family \in {"Diameter", "Hazard"} /\ a.neo = None -> "AttributeError"
      [] OTHER -> "none"

\* datetime.date(): the date of a datetime <<date, time of day>>.
DateOf(datetime) == datetime[1]

\* What extract_attribute returns when it raises nothing.
ExtractAttribute(f, a) ==
    CASE f.family = "Date" -> DateOf(a.time[1])
      [] f.family = "Distance" -> a.distance
      [] f.family = "Velocity" -> a.velocity
      [] f.family = "Diameter" -> neos[a.neo[1]].diameter
      [] f.family = "Hazard" -> neos[a.neo[1]].hazardous
      [] OTHER -> NaN

\* operator.eq, operator.ge, operator.le on floats, dates and bools.
Compare(comparator, x, y) ==
    IF x = NaN \/ y = NaN THEN FALSE
    ELSE CASE comparator = "eq" -> x = y
           [] comparator = "ge" -> x >= y
           [] comparator = "le" -> x <= y

\* GeneralFilter.__call__ when extract_attribute raises nothing.
CallFilter(f, a) == Compare(f.comparator, ExtractAttribute(f, a), f.ref_value)

(***************************************************************************)
(* filters.py: create_filters.                                             *)
(***************************************************************************)
\* The criteria dict, in insertion order.
CriteriaTable ==
    << [key |-> "date", family |-> "Date", comparator |-> "eq"],
       [key |-> "start_date", family |-> "Date", comparator |-> "ge"],
       [key |-> "end_date", family |-> "Date", comparator |-> "le"],
       [key |-> "distance_min", family |-> "Distance", comparator |-> "ge"],
       [key |-> "distance_max", family |-> "Distance", comparator |-> "le"],
       [key |-> "velocity_min", family |-> "Velocity", comparator |-> "ge"],
       [key |-> "velocity_max", family |-> "Velocity", comparator |-> "le"],
       [key |-> "diameter_min", family |-> "Diameter", comparator |-> "ge"],
       [key |-> "diameter_max", family |-> "Diameter", comparator |-> "le"],
       [key |-> "hazardous", family |-> "Hazard", comparator |-> "eq"] >>

CriteriaKeys == {CriteriaTable[i].key : i \in DOMAIN CriteriaTable}

\* `if value is not None`
IfValueTruthy(value) == value # None /\ value[1] # 0

IsNotNone(value) == value # None

\* for key, (FilterClass, op, value) in criteria.items(): ..., from entry k on.
RECURSIVE FilterListFrom(_, _, _)
FilterListFrom(args, k, filter_list) ==
    IF k > Len(CriteriaTable) THEN filter_list
    ELSE LET c == CriteriaTable[k]
             value == args[c.key]
         IN  FilterListFrom(args, k + 1,
                IF IsNotNone(value)
                THEN Append(filter_list, Filter(c.family, c.comparator, value[1]))
                ELSE filter_list)

create_filters(args) == FilterListFrom(args, 1, <<>>)

\* create_filters(**args)
CreateFilters(args) ==
    /\ q_state = "none"
    /\ criteria' = args
    /\ filters' = create_filters(args)
    /\ ret' = [NoRet EXCEPT !.op = "create_filters"]
    /\ UNCHANGED dbVars
    /\ UNCHANGED queryVars
    /\ UNCHANGED limitVars

\* FilterClass(op, value): GeneralFilter.__init__, for a collection built by
\* hand.
NewFilter(f) ==
    /\ phase = "ready"
    /\ q_state = "none"
    /\ Len(filters) < MaxFilters
    /\ filters' = Append(filters, Filter(f.family, f.comparator, f.ref_value))
    /\ UNCHANGED <<ret, criteria>>
    /\ UNCHANGED dbVars
    /\ UNCHANGED queryVars
    /\ UNCHANGED limitVars

(***************************************************************************)
(* database.py: query, and filters.py: limit.                              *)
(***************************************************************************)
\* The value reaches the consumer.
Deliver(p) ==
    /\ out' = Append(out, p)
    /\ ctl' = "consumer"

\* `yield approach`: the generator suspends; the value goes to whoever asked,
\* limit's generator expression or the consumer.
Yield(p) ==
    /\ yielded' = Append(yielded, p)
    /\ q_state' = "suspended"
    /\ q_pos' = p
    /\ q_filter' = 0
    /\ error' = error
    /\ IF lim_mode = "genexpr"
       THEN ctl' = "limit" /\ out' = out
       ELSE Deliver(p)

\* The generator ends, by exhaustion ("done") or by an exception ("raised"),
\* and with it limit's generator expression.
Finish(state, err) ==
    /\ q_state' = state
    /\ error' = err
    /\ ctl' = "consumer"
    /\ UNCHANGED <<yielded, out>>

\* `for approach in self._approaches` reaches position p; all() of no filter
\* is True.
ForLoop(p) ==
    IF p > Len(approaches)
    THEN Finish("done", error) /\ q_pos' = q_pos /\ q_filter' = 0
    ELSE IF filters = <<>>
         THEN Yield(p)
         ELSE /\ q_state' = "running"
              /\ q_pos' = p
              /\ q_filter' = 1
              /\ ctl' = "query"
              /\ UNCHANGED <<yielded, out, error>>

\* all(): goes on to the next filter after the value r.
AllGoesOnRegardless(r) == TRUE

AllGoesOn(r) == r

\* `idx < max_elements` of limit's generator expression.
LimitKeepsOneMore(idx, n) == idx <= n

LimitKeeps(idx, n) == idx < n

\* limit returns its argument for these.
IsUnlimited(n) == n = None \/ n = Some(0)

\* db.query(filters): the generator is created, and nothing runs yet.
Query ==
    /\ phase = "ready"
    /\ q_state = "none"
    /\ q_state' = "created"
    /\ UNCHANGED <<q_pos, q_filter, yielded, calls, error, out, pulls, ctl>>
    /\ UNCHANGED <<ret, criteria, filters>>
    /\ UNCHANGED dbVars
    /\ UNCHANGED limitVars

\* limit(iterator, max_elements) on the query generator.
Limit(n) ==
    /\ q_state = "created"
    /\ lim_mode = "none"
    /\ pulls = 0
    /\ max_elements' = n
    /\ lim_mode' = IF IsUnlimited(n) THEN "passthrough" ELSE "genexpr"
    /\ UNCHANGED lim_idx
    /\ UNCHANGED <<ret, criteria, filters>>
    /\ UNCHANGED dbVars
    /\ UNCHANGED queryVars

\* The consumer asks for the next item: of the query generator, or of
\* limit's generator expression, which asks the query generator.
ConsumerNext ==
    /\ ctl = "consumer"
    /\ q_state \in {"created", "suspended"}
    /\ pulls' = pulls + 1
    /\ ForLoop(q_pos + 1)
    /\ UNCHANGED calls
    /\ UNCHANGED <<ret, criteria, filters>>
    /\ UNCHANGED dbVars
    /\ UNCHANGED limitVars

\* One step of all(f(approach) for f in filters): the filter at q_filter is
\* called on the approach at q_pos.
FilterCall ==
    /\ ctl = "query"
    /\ q_state = "running"
    /\ LET f == filters[q_filter]
           a == approaches[q_pos]
           err == ExtractError(f, a)
       IN  /\ calls' = calls \cup {<<q_pos, q_filter>>}
           /\ IF err # "none"
              THEN Finish("raised", err) /\ UNCHANGED <<q_pos, q_filter>>
              ELSE IF AllGoesOn(CallFilter(f, a))
                   THEN IF q_filter = Len(filters)
                        THEN Yield(q_pos)
                        ELSE /\ q_filter' = q_filter + 1
                             /\ UNCHANGED <<q_state, q_pos, yielded, error,
                                            out, ctl>>
                   ELSE ForLoop(q_pos + 1)
    /\ UNCHANGED pulls
    /\ UNCHANGED <<ret, criteria, filters>>
    /\ UNCHANGED dbVars
    /\ UNCHANGED limitVars

\* limit's generator expression gets (idx, item) from enumerate: it yields
\* the item, or asks the source for the next one.
LimitStep ==
    /\ ctl = "limit"
    /\ lim_idx' = lim_idx + 1
    /\ IF LimitKeeps(lim_idx, max_elements[1])
       THEN /\ Deliver(yielded[Len(yielded)])
            /\ UNCHANGED <<q_state, q_pos, q_filter, yielded, error, pulls>>
       ELSE /\ pulls' = pulls + 1
            /\ ForLoop(q_pos + 1)
    /\ UNCHANGED calls
    /\ UNCHANGED <<lim_mode, max_elements>>
    /\ UNCHANGED <<ret, criteria, filters>>
    /\ UNCHANGED dbVars

\* The inputs of the query specification.
QueryNeoInfos ==
    { [designation |-> "a", diameter |-> PyNone, hazardous |-> FALSE],
      [designation |-> "a", diameter |-> PyFloat(2), hazardous |-> TRUE] }
QueryApproachInfos ==
    [designation : {"a", "c"}, datetime : {None, Some(<<1, 12>>)},
     distance : {1, 2}, velocity : {1}]
QueryFilters ==
    { Filter("General", "eq", 1), Filter("Date", "eq", 1),
      Filter("Distance", "le", 1), Filter("Diameter", "ge", 2),
      Filter("Hazard", "eq", 1) }

Next ==
    \/ \E info \in QueryNeoInfos : Len(neos) < MaxQueryNeos /\ NewNEO(info)
    \/ \E info \in QueryApproachInfos : NewApproach(info)
    \/ NEODatabaseInit
    \/ \E f \in QueryFilters : NewFilter(f)
    \/ Query
    \/ ConsumerNext
    \/ FilterCall

Spec == Init /\ [][Next]_vars

\* The inputs of the limit specification: the collection comes from
\* create_filters.
Unset == [k \in CriteriaKeys |-> None]
LimitCriteria ==
    { [Unset EXCEPT !["distance_max"] = dm, !["velocity_min"] = vm,
                    !["hazardous"] = hz] :
        dm \in {None, Some(1)}, vm \in {None, Some(2)}, hz \in {None, Some(1)} }
LimitApproachInfos ==
    [designation : {"a", "c"}, datetime : {Some(<<1, 12>>)},
     distance : {1, 2}, velocity : {1, 2}]
Limits == {None} \cup {Some(n) : n \in 0..MaxLimit}

NextLimit ==
    \/ \E info \in QueryNeoInfos : Len(neos) < MaxQueryNeos /\ NewNEO(info)
    \/ \E info \in LimitApproachInfos : NewApproach(info)
    \/ NEODatabaseInit
    \/ \E args \in LimitCriteria : phase = "ready" /\ ret.op = "none" /\ CreateFilters(args)
    \/ Query
    \/ \E n \in Limits : Limit(n)
    \/ ConsumerNext
    \/ FilterCall
    \/ LimitStep

SpecLimit == Init /\ [][NextLimit]_vars

\* The inputs of the factory specification: every combination of the ten
\* criteria set or unset.
Booleans == {0, 1}
AllCriteria ==
    { [k \in CriteriaKeys |->
          IF k \in set THEN Some(IF k = "hazardous" THEN hz ELSE 1) ELSE None] :
        set \in SUBSET CriteriaKeys, hz \in Booleans }

NextFilters == \E args \in AllCriteria : ret.op = "none" /\ CreateFilters(args)

SpecFilters == Init /\ [][NextFilters]_vars

(***************************************************************************)
(* Properties of the dataset (SpecDB).                                     *)
(***************************************************************************)
\* The positions of the supplied approaches whose designation is d, ascending.
ApproachesOf(d) ==
    SelectSeq([k \in 1..Len(approaches) |-> k],
              LAMBDA k : approaches[k].designation = d)

\* The positions of the supplied NEOs whose designation is d.
NeosOf(d) == {n \in DOMAIN neos : neos[n].designation = d}

SetMax(S) == CHOOSE x \in S : \A y \in S : y <= x

\* C2 as stated: after construction every NEO, duplicates of a designation
\* included, holds exactly the approaches of its designation, each once, in
\* the order supplied.
C2_EveryNeoHoldsItsApproaches ==
    phase = "ready" =>
        \A n \in DOMAIN neos :
            neos[n].approaches = ApproachesOf(neos[n].designation)

\* C2 amended: after construction the NEO supplied last among those of its
\* designation holds exactly the approaches of that designation, each once,
\* in the order supplied; an NEO followed by another of the same designation
\* holds none.
C2_LastNeoHoldsItsApproaches ==
    phase = "ready" =>
        \A n \in DOMAIN neos :
            neos[n].approaches =
                IF n = SetMax(NeosOf(neos[n].designation))
                THEN ApproachesOf(neos[n].designation)
                ELSE <<>>

C2_Witness ==
    /\ phase = "ready"
    /\ \E n, m \in DOMAIN neos :
        /\ n < m
        /\ neos[n].designation = neos[m].designation
        /\ neos[n].approaches = <<>>
        /\ Len(neos[m].approaches) >= 2

\* C3: after construction an approach's neo is None exactly when no supplied
\* NEO has its designation; otherwise it is the NEO get_neo_by_designation
\* returns for that designation, and the approach is in that NEO's
\* approaches. Construction completes whatever orphans are supplied.
C3_ApproachLinkedIffNeoExists ==
    phase = "ready" =>
        \A k \in DOMAIN approaches :
            LET a == approaches[k]
            IN  /\ a.neo = None <=> NeosOf(a.designation) = {}
                /\ a.neo # None =>
                    /\ a.neo = Lookup(neos, neo_idx_by_designation, a.designation)
                    /\ neos[a.neo[1]].designation = a.designation
                    /\ \E i \in DOMAIN neos[a.neo[1]].approaches :
                        neos[a.neo[1]].approaches[i] = k

C3_Witness ==
    /\ phase = "ready"
    /\ \E k, l \in DOMAIN approaches :
        /\ approaches[k].neo = None
        /\ NeosOf(approaches[k].designation) = {}
        /\ approaches[l].neo # None

\* C4: get_neo_by_designation(d) returns None when no supplied NEO has
\* designation d, and otherwise the one supplied last among those that have.
C4_LookupReturnsLastSupplied ==
    ret.op = "get_neo_by_designation" =>
        IF NeosOf(ret.arg) = {}
        THEN ret.neo = None
        ELSE ret.neo = Some(SetMax(NeosOf(ret.arg)))

C4_Witness ==
    /\ ret.op = "get_neo_by_designation"
    /\ Cardinality(NeosOf(ret.arg)) >= 2
    /\ ret.neo # None

\* The diameter given at construction is unknown: missing, or a string that
\* spells no number.
UnknownDiameter(raw) ==
    \/ raw.kind = "None"
    \/ raw.kind = "str" /\ ToFloat(raw) = None

\* C9 as stated: an NEO of unknown diameter serializes to the sentinel and
\* not to a number, and an NEO constructed with diameter zero serializes to
\* zero.
C9_UnknownIsSentinelZeroIsZero ==
    ret.op = "serialize" =>
        LET raw == infos[ret.neo[1]].diameter
        IN  /\ UnknownDiameter(raw) => ret.diameter_km = PyStr("nan")
            /\ raw = PyFloat(0) => ret.diameter_km = PyFloat(0)

\* The first half of C9 alone.
C9_UnknownIsSentinel ==
    ret.op = "serialize" =>
        (UnknownDiameter(infos[ret.neo[1]].diameter)
            => ret.diameter_km.kind = "str")

\* The second half of C9 alone.
C9_ZeroIsZero ==
    ret.op = "serialize" =>
        (infos[ret.neo[1]].diameter = PyFloat(0)
            => ret.diameter_km = PyFloat(0))

(***************************************************************************)
(* Properties of query (Spec) and of limit (SpecLimit).                    *)
(***************************************************************************)
\* Filter j returns true on the approach at position p.
ReturnsTrue(j, p) ==
    /\ ExtractError(filters[j], approaches[p]) = "none"
    /\ CallFilter(filters[j], approaches[p])

\* The positions of the approaches on which every filter returns true,
\* ascending.
Matching ==
    SelectSeq([k \in 1..Len(approaches) |-> k],
              LAMBDA p : \A j \in DOMAIN filters : ReturnsTrue(j, p))

\* C1 as stated: once the query has been consumed to its end, what it
\* yielded is exactly the stored approaches on which every filter returns
\* true, in stored order.
C1_QueryYieldsExactlyTheMatching ==
    q_state \in {"done", "raised"} => yielded = Matching

\* C10: on one approach the filters are called in the order supplied and no
\* filter is called after one that returned false, so a Diameter or Hazard
\* filter behind a filter that rejects an orphan is never called on it; a
\* Diameter or Hazard filter that is called on an orphan ends the query with
\* an AttributeError at that approach.
C10_ShortCircuitOnFirstFalse ==
    /\ \A c \in calls :
        \A k \in 1..(c[2] - 1) : <<c[1], k>> \in calls /\ ReturnsTrue(k, c[1])
    /\ \A p \in 1..(q_pos - 1) : filters # <<>> => <<p, 1>> \in calls
    /\ \A c \in calls :
        (filters[c[2]].family \in {"Diameter", "Hazard"}
            /\ approaches[c[1]].neo = None)
        => /\ q_state = "raised"
           /\ error = "AttributeError"
           /\ q_pos = c[1]
           /\ q_filter = c[2]

C10_Witness ==
    /\ q_state = "done"
    /\ Len(filters) >= 2
    /\ filters[2].family \in {"Diameter", "Hazard"}
    /\ \E p \in DOMAIN approaches :
        /\ approaches[p].neo = None
        /\ <<p, 1>> \in calls
        /\ ~ReturnsTrue(1, p)
        /\ <<p, 2>> \notin calls

\* C7 as stated: a query that iterates approaches never fails with
\* FilterNotSupported while it evaluates the predicates.
C7_NoFilterNotSupportedInQuery == error # "FilterNotSupported"

\* C7 amended: constructing a filter on the base class raises nothing;
\* FilterNotSupported is raised the first time the filter is called on an
\* approach, inside the query's evaluation of the predicates, and ends the
\* query there.
C7_FilterNotSupportedAtFirstCall ==
    /\ q_state \in {"none", "created"} => error = "none"
    /\ error = "FilterNotSupported" <=>
        (q_state = "raised" /\ filters[q_filter].family = "General")
    /\ \A c \in calls :
        filters[c[2]].family = "General"
        => /\ q_state = "raised"
           /\ error = "FilterNotSupported"
           /\ q_pos = c[1]
           /\ q_filter = c[2]

C7_Witness ==
    /\ q_state = "raised"
    /\ error = "FilterNotSupported"
    /\ q_pos >= 2
    /\ q_filter >= 2

\* C5 as stated: once limit has produced its n-th item, no further element
\* comes out of the source, and the query calls no filter on a further
\* approach.
C5_SourceUntouchedAfterNth ==
    [][(lim_mode = "genexpr" /\ Len(out) >= max_elements[1])
        => (yielded' = yielded /\ calls' = calls)]_vars

\* C6: what limit has produced is the source's items unchanged when
\* max_elements is None or 0, and otherwise the first min(n, length) of them
\* in order.
C6_LimitProducesPrefix ==
    (lim_mode # "none" /\ ctl = "consumer") =>
        out = IF max_elements = None \/ max_elements = Some(0)
              THEN yielded
              ELSE SubSeq(yielded, 1, Min(max_elements[1], Len(yielded)))

C6_Witness ==
    /\ lim_mode = "genexpr"
    /\ q_state = "done"
    /\ Len(yielded) > max_elements[1]
    /\ Len(out) = max_elements[1]
    /\ filters # <<>>

(***************************************************************************)
(* Properties of create_filters (SpecFilters).                             *)
(***************************************************************************)
\* The ten criteria in the order fixed for the result.
CriteriaOrder ==
    <<"date", "start_date", "end_date", "distance_min", "distance_max",
      "velocity_min", "velocity_max", "diameter_min", "diameter_max",
      "hazardous">>

FamilyFor(key) ==
    CASE key \in {"date", "start_date", "end_date"} -> "Date"
      [] key \in {"distance_min", "distance_max"} -> "Distance"
      [] key \in {"velocity_min", "velocity_max"} -> "Velocity"
      [] key \in {"diameter_min", "diameter_max"} -> "Diameter"
      [] key = "hazardous" -> "Hazard"

ComparatorFor(key) ==
    CASE key \in {"date", "hazardous"} -> "eq"
      [] key \in {"start_date", "distance_min", "velocity_min", "diameter_min"} -> "ge"
      [] key \in {"end_date", "distance_max", "velocity_max", "diameter_max"} -> "le"

\* C8: create_filters returns one filter for each criterion that is not
\* None (a hazardous of False included) and none for the others, each with
\* the family and the comparator of its criterion and the given value, in
\* the fixed order of the criteria.
C8_OneFilterPerGivenCriterion ==
    ret.op = "create_filters" =>
        LET given == {i \in DOMAIN CriteriaOrder : criteria[CriteriaOrder[i]] # None}
            rank(i) == Cardinality({j \in given : j <= i})
        IN  /\ Len(filters) = Cardinality(given)
            /\ \A i \in given :
                /\ filters[rank(i)].family = FamilyFor(CriteriaOrder[i])
                /\ filters[rank(i)].comparator = ComparatorFor(CriteriaOrder[i])
                /\ filters[rank(i)].ref_value = criteria[CriteriaOrder[i]][1]

C8_Witness ==
    /\ ret.op = "create_filters"
    /\ criteria["hazardous"] = Some(0)
    /\ criteria["date"] = None
    /\ criteria["end_date"] # None
    /\ Len(filters) >= 3

====
